---- MODULE Spec2Model ----
(***************************************************************************)
(* FGElectric (src/models/propulsion/FGElectric.cpp): the electric motor   *)
(* of JSBSim.  The constructor reads <power>, <maxrpm> and <tau>; each     *)
(* frame Calculate() turns the throttle command and the thruster feedback  *)
(* into a commanded power, saturates it at PowerMax and hands it to the    *)
(* thruster.                                                               *)
(*                                                                         *)
(* The doubles of the code are modelled as exact rationals <<num, den>>    *)
(* (den > 0, lowest terms): rounding of IEEE arithmetic is not modelled.   *)
(***************************************************************************)
EXTENDS Integers, Sequences, FiniteSets, TLC

VARIABLES
  el,            \* the XML <electric_engine> element given to the constructor
  PowerMax,      \* FGElectric::PowerMax  [watts]
  MaxRPM,        \* FGElectric::MaxRPM
  Tau,           \* FGElectric::Tau       [s]
  FiltState,     \* FGElectric::FiltState
  HP,            \* FGElectric::HP, tied to propulsion/engine[n]/power-hp
  in,            \* FGEngine::Inputs read by the last Calculate()
  thr,           \* the thruster: feedback read and power received by the last Calculate()
  loc,           \* the locals of the last Calculate()
  calls,         \* number of Calculate() calls so far
  twin           \* a second motor instance, driven with the same throttle

vars == <<el, PowerMax, MaxRPM, Tau, FiltState, HP, in, thr, loc, calls, twin>>

(***************************************************************************)
(* Exact rational arithmetic standing for the double arithmetic.           *)
(***************************************************************************)
RECURSIVE GCD(_, _)
GCD(a, b) == IF b = 0 THEN a ELSE GCD(b, a % b)

IAbs(n) == IF n < 0 THEN -n ELSE n

R(n, d) ==
  LET s == IF d < 0 THEN -1 ELSE 1
      g == GCD(IAbs(n), IAbs(d))
  IN <<(s * n) \div g, (s * d) \div g>>

Zero == <<0, 1>>
One  == <<1, 1>>

RNeg(a) == <<-a[1], a[2]>>

RAdd(a, b) ==
  LET g == GCD(a[2], b[2])
  IN R(a[1] * (b[2] \div g) + b[1] * (a[2] \div g), (a[2] \div g) * b[2])

RSub(a, b) == RAdd(a, RNeg(b))

RMul(a, b) ==
  LET g1 == GCD(IAbs(a[1]), b[2])
      g2 == GCD(IAbs(b[1]), a[2])
  IN <<(a[1] \div g1) * (b[1] \div g2), (a[2] \div g2) * (b[2] \div g1)>>

RInv(a) == IF a[1] < 0 THEN <<-a[2], -a[1]>> ELSE <<a[2], a[1]>>

RDiv(a, b) == RMul(a, RInv(b))

RLeq(a, b) == a[1] * b[2] <= b[1] * a[2]
RLt(a, b)  == a[1] * b[2] < b[1] * a[2]

\* std::min(a, b): b < a ? b : a     std::max(a, b): a < b ? b : a
RMin(a, b) == IF RLt(b, a) THEN b ELSE a
RMax(a, b) == IF RLt(a, b) THEN b ELSE a

\* abs(double)
RAbs(a) == <<IAbs(a[1]), a[2]>>

(***************************************************************************)
(* Conversion factors (FGJSBBase / FGElectric.h, not part of src/).        *)
(***************************************************************************)
hptoftlbssec == <<550, 1>>       \* 1 hp = 550 ft-lb/s
wattstohp    == <<10, 7457>>     \* 1 hp = 745.7 W
rpmtoradpsec == <<11, 105>>      \* 2*pi/60 with pi taken as 22/7

\* the literal 0.0001 of max(0.0001, in.TotalDeltaT)
dtFloor == <<1, 10000>>

(***************************************************************************)
(* Bounds and the values the inputs are drawn from.                        *)
(***************************************************************************)
MaxCalls == 2
MaxHold  == 4

\* markers are one-element tuples, so that they compare with the rationals
NoElement == <<"absent">>

\* <power>, <maxrpm>, <tau> of the engine file, each possibly absent
PowerElems  == {NoElement, <<7457, 1>>}
MaxRPMElems == {NoElement, <<2000, 1>>, <<-60, 1>>}
TauElems    == {NoElement, <<1, 10000>>, <<-2, 10000>>}

\* values an object member or local left unset may hold
Indeterminate == {<<0, 1>>, <<14914, 1>>}

ThrottleVals   == {<<-1, 1>>, <<0, 1>>, <<1, 1>>, <<2, 1>>}
DeltaTVals     == {<<-1, 1>>, <<0, 1>>, <<3, 10000>>}
PowerReqVals   == {<<-2, 1>>, <<0, 1>>, <<2, 1>>}

\* what the propeller reports: GetRPM(), GetGearRatio(), GetTorque()
ThrusterStates ==
  {[RPM |-> <<0, 1>>,      GearRatio |-> <<1, 1>>, Torque |-> <<100, 1>>],
   [RPM |-> <<1500, 1>>,   GearRatio |-> <<1, 1>>, Torque |-> <<-100, 1>>],
   [RPM |-> <<1500, 1>>,   GearRatio |-> <<2, 1>>, Torque |-> <<100, 1>>],
   [RPM |-> <<100000, 1>>, GearRatio |-> <<1, 1>>, Torque |-> <<0, 1>>]}

NotRead == <<"not read">>
NotSet  == <<"not set">>

(***************************************************************************)
(* FGElectric::FGElectric                                                  *)
(***************************************************************************)
\* lines 73-84: the members after construction; u is what PowerMax holds
\* when <power> is absent (the constructor leaves it unset)
Construct(e, u) ==
  [PowerMax  |-> IF e.power # NoElement THEN e.power ELSE u,
   MaxRPM    |-> IF e.maxrpm # NoElement THEN e.maxrpm ELSE Zero,
   Tau       |-> IF e.tau # NoElement THEN e.tau ELSE Zero,
   FiltState |-> Zero]

(***************************************************************************)
(* FGElectric::Calculate, piece by piece                                   *)
(***************************************************************************)
\* line 112
PowerMax_ftlbssec(pmax) == RMul(RMul(pmax, wattstohp), hptoftlbssec)

\* a floor of 0.001 instead of 0.0001
ClampDtCoarse(tdt) == RMax(<<1, 1000>>, tdt)

\* lines 115, 128, 148
ClampDt(tdt) == RMax(dtFloor, tdt)

\* if (MaxRPM != 0.0), as the file's HISTORY comment words it
UseRPMCommandNonZero(maxrpm) == maxrpm # Zero

\* line 118: if (MaxRPM > 0.0)
UseRPMCommand(maxrpm) == RLt(Zero, maxrpm)

\* if (Tau >= 0.0)
FilterEnabledAtZero(tau) == RLeq(Zero, tau)

\* lines 127, 145: if (Tau > 0.0)
FilterEnabled(tau) == RLt(Zero, tau)

\* lines 129, 149
Alpha(tau, dt) == RDiv(One, RAdd(One, RDiv(tau, dt)))

\* the two weights exchanged
LagFilterSwapped(alpha, x, filt) == RAdd(RMul(alpha, filt), RMul(RSub(One, alpha), x))

\* lines 131, 151: alpha*x + (1-alpha)*FiltState
LagFilter(alpha, x, filt) == RAdd(RMul(alpha, x), RMul(RSub(One, alpha), filt))

\* no clamp
ClampRPMOff(x, maxrpm) == x

\* lines 120, 124: min(x, MaxRPM)
ClampRPM(x, maxrpm) == RMin(x, maxrpm)

\* the torque taken with its sign
RPMPowerCommandSignedTorque(tq, gr, cmdRPM, rpm, preq) ==
  RAdd(RMul(RDiv(tq, gr), RMul(RSub(cmdRPM, rpm), rpmtoradpsec)), preq)

\* lines 136-139
RPMPowerCommand(tq, gr, cmdRPM, rpm, preq) ==
  LET DeltaRPM  == RSub(cmdRPM, rpm)
      TorqueReq == RDiv(RAbs(tq), gr)
  IN RAdd(RMul(TorqueReq, RMul(DeltaRPM, rpmtoradpsec)), preq)

\* line 146 assigning the PowerReqFilt of line 142 instead of declaring a new one
InnerPowerReqFilt(preq, tau, inner) == IF FilterEnabled(tau) THEN inner ELSE preq

\* lines 142-152: the PowerReqFilt that line 157 reads is the one declared at
\* line 142; the filter output goes to the PowerReqFilt declared at line 146,
\* whose scope ends at line 155
OuterPowerReqFilt(preq, tau, inner) == preq

\* the feedback term not subtracted
PowerCommandKeepReq(pmaxft, cmd, preq, preqFilt) == RAdd(RMul(pmaxft, cmd), preq)

\* line 157
PowerCommand(pmaxft, cmd, preq, preqFilt) ==
  RSub(RAdd(RMul(pmaxft, cmd), preq), preqFilt)

\* no limit
SaturateOff(cmdPower, pmaxft) == cmdPower

\* line 160
Saturate(cmdPower, pmaxft) == RMin(cmdPower, pmaxft)

\* line 164
ToHP(cmdPower) == RDiv(cmdPower, hptoftlbssec)

\* lines 118-139, RPM command
RPMBranch(maxrpm, tau, filt, cmd, dt, preq, trpm, gr, tq) ==
  LET CmdRPM == ClampRPM(RMul(maxrpm, cmd), maxrpm)
      RPM0   == ClampRPM(RMul(trpm, gr), maxrpm)
      on     == FilterEnabled(tau)
      alpha  == Alpha(tau, dt)
      RPM    == IF on THEN LagFilter(alpha, RPM0, filt) ELSE RPM0
  IN [branch     |-> "rpm",
      dt         |-> dt,
      alpha      |-> IF on THEN alpha ELSE NotSet,
      measure    |-> RPM0,
      feedback   |-> RPM,
      CmdRPM     |-> CmdRPM,
      RPM        |-> RPM,
      filtered   |-> NotSet,
      stale      |-> NotSet,
      filtOn     |-> on,
      filtWrites |-> IF on THEN 1 ELSE 0,
      prevFilt   |-> filt,
      FiltState  |-> IF on THEN RPM ELSE filt,
      raw        |-> RPMPowerCommand(tq, gr, CmdRPM, RPM, preq)]

\* lines 141-158, power command; u is the value the local CmdPower, declared
\* at line 114 without a value, holds when line 154 reads it; stale is
\* CmdPower just before line 157 overwrites it
PowerBranch(pmaxft, tau, filt, cmd, dt, preq, u) ==
  LET on       == FilterEnabled(tau)
      alpha    == Alpha(tau, dt)
      inner    == LagFilter(alpha, preq, filt)
      CmdPower0 == IF on THEN RSub(u, preq) ELSE u
      PowerReqFilt == OuterPowerReqFilt(preq, tau, IF on THEN inner ELSE NotSet)
      CmdPower1 == PowerCommand(pmaxft, cmd, preq, PowerReqFilt)
  IN [branch     |-> "power",
      dt         |-> dt,
      alpha      |-> IF on THEN alpha ELSE NotSet,
      measure    |-> preq,
      feedback   |-> PowerReqFilt,
      CmdRPM     |-> NotSet,
      RPM        |-> NotSet,
      filtered   |-> IF on THEN inner ELSE NotSet,
      stale      |-> CmdPower0,
      filtOn     |-> on,
      filtWrites |-> IF on THEN 1 ELSE 0,
      prevFilt   |-> filt,
      FiltState  |-> IF on THEN inner ELSE filt,
      raw        |-> CmdPower1]

\* lines 110-164: one call, from the members and the inputs to the locals,
\* the new FiltState, the power given to the thruster and HP
CalcStep(pmax, maxrpm, tau, filt, cmd, tdt, preq, trpm, gr, tq, u) ==
  LET pmaxft == PowerMax_ftlbssec(pmax)
      dt     == ClampDt(tdt)
      l      == IF UseRPMCommand(maxrpm)
                  THEN RPMBranch(maxrpm, tau, filt, cmd, dt, preq, trpm, gr, tq)
                  ELSE PowerBranch(pmaxft, tau, filt, cmd, dt, preq, u)
      CmdPower == Saturate(l.raw, pmaxft)
  IN [loc |-> l,
      FiltState |-> l.FiltState,
      CmdPower  |-> CmdPower,
      HP        |-> ToHP(CmdPower)]

(***************************************************************************)
(* State after construction                                                *)
(***************************************************************************)
NoLocals ==
  [branch |-> "none", dt |-> NotSet, alpha |-> NotSet, measure |-> NotSet,
   feedback |-> NotSet, CmdRPM |-> NotSet, RPM |-> NotSet, filtered |-> NotSet,
   stale |-> NotSet, filtOn |-> FALSE, filtWrites |-> 0, prevFilt |-> NotSet,
   FiltState |-> NotSet, raw |-> NotSet]

NoInputs == [ThrottlePos |-> NotRead, TotalDeltaT |-> NotRead]

IdleThruster ==
  [PowerRequired |-> NotRead, RPM |-> NotRead, GearRatio |-> NotRead,
   Torque |-> NotRead, Power |-> NotSet]

NoTwin == [present |-> FALSE]

\* a second motor with the same PowerMax, built from its own <maxrpm>, <tau>
TwinOf(pmax, e) ==
  LET c == Construct(e, pmax)
  IN [present |-> TRUE, PowerMax |-> pmax, MaxRPM |-> c.MaxRPM, Tau |-> c.Tau,
      FiltState |-> c.FiltState, PowerRequired |-> NotRead,
      TotalDeltaT |-> NotRead, Power |-> NotSet]

Elements == [power : PowerElems, maxrpm : MaxRPMElems, tau : TauElems]

\* the motor built from element e; HP is not assigned by the constructor
Constructed(e) ==
  /\ el = e
  /\ \E u \in Indeterminate :
       LET c == Construct(e, u)
       IN /\ PowerMax = c.PowerMax
          /\ MaxRPM = c.MaxRPM
          /\ Tau = c.Tau
          /\ FiltState = c.FiltState
  /\ HP \in Indeterminate
  /\ in = NoInputs
  /\ thr = IdleThruster
  /\ loc = NoLocals
  /\ calls = 0

Init ==
  /\ \E e \in Elements : Constructed(e)
  /\ twin = NoTwin

(***************************************************************************)
(* FGElectric::Calculate as one step of the simulation loop                *)
(***************************************************************************)
\* one call with the given throttle, frame time and power required; the
\* thruster's RPM, gear ratio and torque are read in the RPM branch only
CalculateWith(cmd, tdt, preq) ==
  \E t \in IF UseRPMCommand(MaxRPM)
              THEN ThrusterStates
              ELSE {[RPM |-> NotRead, GearRatio |-> NotRead, Torque |-> NotRead]},
     u \in IF UseRPMCommand(MaxRPM) THEN {NotSet} ELSE Indeterminate :
    \E r \in {CalcStep(PowerMax, MaxRPM, Tau, FiltState, cmd, tdt, preq,
                       t.RPM, t.GearRatio, t.Torque, u)} :
       /\ FiltState' = r.FiltState
       /\ HP' = r.HP
       /\ in' = [ThrottlePos |-> cmd, TotalDeltaT |-> tdt]
       /\ thr' = [PowerRequired |-> preq, RPM |-> t.RPM, GearRatio |-> t.GearRatio,
                  Torque |-> t.Torque, Power |-> r.CmdPower]
       /\ loc' = r.loc
       /\ calls' = calls + 1
       /\ UNCHANGED <<el, PowerMax, MaxRPM, Tau>>

Calculate ==
  /\ calls < MaxCalls
  /\ \E cmd \in ThrottleVals, tdt \in DeltaTVals, preq \in PowerReqVals :
       CalculateWith(cmd, tdt, preq)
  /\ UNCHANGED twin

Next == Calculate

Spec == Init /\ [][Next]_vars

(***************************************************************************)
(* The simulation loop holding the thruster's power required and the frame *)
(* time constant, on a power-commanded motor with the filter enabled.      *)
(***************************************************************************)
InitHold ==
  /\ \E e \in Elements :
       /\ ~UseRPMCommand(Construct(e, Zero).MaxRPM)
       /\ FilterEnabled(Construct(e, Zero).Tau)
       /\ Constructed(e)
  /\ twin = NoTwin

CalculateHold ==
  /\ calls < MaxHold
  /\ \E cmd \in ThrottleVals, tdt \in DeltaTVals, preq \in PowerReqVals :
       /\ calls > 0 => (tdt = in.TotalDeltaT /\ preq = thr.PowerRequired)
       /\ CalculateWith(cmd, tdt, preq)
  /\ UNCHANGED twin

NextHold == CalculateHold

\* The loop runs a frame whenever one is due.  Every CalculateHold step is a
\* FrameHold step and both are enabled exactly while calls < MaxHold, so
\* WF_calls(FrameHold) is WF_vars(CalculateHold), stated on the call counter.
FrameHold == calls < MaxHold /\ calls' = calls + 1

SpecHold == InitHold /\ [][NextHold]_vars /\ WF_calls(FrameHold)

(***************************************************************************)
(* Two power-commanded motors with the same PowerMax, given the same       *)
(* throttle each frame and their own power required and frame time.        *)
(***************************************************************************)
PairDeltaTs   == {<<0, 1>>, <<3, 10000>>}
PairPowerReqs == {<<-2, 1>>, <<2, 1>>}

InitPair ==
  \E e \in Elements, e2 \in Elements :
    /\ e.power # NoElement /\ e2.power = e.power
    /\ e.maxrpm = NoElement /\ e2.maxrpm = NoElement
    /\ Constructed(e)
    /\ twin = TwinOf(PowerMax, e2)

TwinCalculate(cmd, tdt, preq) ==
  \E u \in Indeterminate :
    \E r \in {CalcStep(twin.PowerMax, twin.MaxRPM, twin.Tau, twin.FiltState,
                       cmd, tdt, preq, NotRead, NotRead, NotRead, u)} :
      twin' = [twin EXCEPT !.FiltState = r.FiltState, !.PowerRequired = preq,
                           !.TotalDeltaT = tdt, !.Power = r.CmdPower]

CalculatePair ==
  /\ calls < MaxCalls
  /\ \E cmd \in ThrottleVals :
       /\ \E tdt \in PairDeltaTs, preq \in PairPowerReqs : CalculateWith(cmd, tdt, preq)
       /\ \E tdt \in PairDeltaTs, preq \in PairPowerReqs : TwinCalculate(cmd, tdt, preq)

NextPair == CalculatePair

SpecPair == InitPair /\ [][NextPair]_vars

(***************************************************************************)
(* Properties                                                              *)
(***************************************************************************)
Called    == calls > 0
RPMMode   == Called /\ loc.branch = "rpm"
PowerMode == Called /\ loc.branch = "power"
PMaxFt    == PowerMax_ftlbssec(PowerMax)
RBetween(a, x, b) == RLeq(RMin(a, b), x) /\ RLeq(x, RMax(a, b))

\* C1: after every Calculate the power given to the thruster never exceeds
\* PowerMax in ft-lb/s, equals it whenever the raw commanded power is larger,
\* is the raw commanded power otherwise (negative values included), and HP
\* times hptoftlbssec is that same power.
C1_Saturation ==
  Called =>
    /\ RLeq(thr.Power, PMaxFt)
    /\ RLt(PMaxFt, loc.raw) => thr.Power = PMaxFt
    /\ RLeq(loc.raw, PMaxFt) => thr.Power = loc.raw
    /\ RMul(HP, hptoftlbssec) = thr.Power

C1_Witness ==
  /\ Called
  /\ RLt(Zero, PMaxFt)
  /\ RLt(PMaxFt, loc.raw)
  /\ thr.Power = PMaxFt

\* C2 as stated: with MaxRPM = 0 and Tau = 0 the commanded power is
\* min(PowerMax_ftlbssec*throttle + powerRequired, PowerMax_ftlbssec).
C2_AsStated ==
  (PowerMode /\ MaxRPM = Zero /\ Tau = Zero) =>
    thr.Power = RMin(RAdd(RMul(PMaxFt, in.ThrottlePos), thr.PowerRequired), PMaxFt)

\* C2, amended: with MaxRPM = 0 and Tau = 0 the power required is added and
\* subtracted again, so the commanded power is
\* min(PowerMax_ftlbssec*throttle, PowerMax_ftlbssec) whatever the thruster
\* requires; FiltState is not written; zero throttle gives exactly 0.
C2_Amended ==
  (PowerMode /\ MaxRPM = Zero /\ Tau = Zero) =>
    /\ thr.Power = RMin(RMul(PMaxFt, in.ThrottlePos), PMaxFt)
    /\ FiltState = loc.prevFilt
    /\ (in.ThrottlePos = Zero /\ RLeq(Zero, PMaxFt)) => thr.Power = Zero

C2_Witness ==
  /\ PowerMode /\ MaxRPM = Zero /\ Tau = Zero
  /\ in.ThrottlePos = Zero
  /\ thr.PowerRequired = <<2, 1>>
  /\ PowerMax = <<7457, 1>>
  /\ thr.Power = Zero

\* C3: with MaxRPM = 0 and Tau > 0 the raw commanded power is
\* PowerMax_ftlbssec*throttle + powerRequired - filteredPowerRequired, where
\* filteredPowerRequired is this call's lag-filter output, stored in FiltState.
C3_FilteredFeedForward ==
  (PowerMode /\ MaxRPM = Zero /\ RLt(Zero, Tau)) =>
    /\ FiltState = LagFilter(Alpha(Tau, loc.dt), thr.PowerRequired, loc.prevFilt)
    /\ loc.raw = RSub(RAdd(RMul(PMaxFt, in.ThrottlePos), thr.PowerRequired), FiltState)

\* C4: in RPM-command mode the commanded RPM and the actual RPM that form the
\* RPM error are each at most MaxRPM after every call.
C4_RPMClamped ==
  RPMMode => RLeq(loc.CmdRPM, MaxRPM) /\ RLeq(loc.RPM, MaxRPM)

C4_Witness ==
  /\ RPMMode /\ calls = 2 /\ loc.filtOn
  /\ in.ThrottlePos = <<2, 1>>
  /\ thr.RPM = <<100000, 1>>
  /\ loc.CmdRPM = MaxRPM
  /\ RLt(Zero, loc.prevFilt) /\ RLt(loc.prevFilt, MaxRPM)
  /\ RLt(loc.RPM, MaxRPM)

\* C5: on a power-commanded motor with Tau > 0 and powerRequired and dt held,
\* every call moves FiltState toward powerRequired: the distance shrinks by
\* the factor Tau/(Tau + dt), FiltState stays on its side of powerRequired,
\* the correction term in the raw commanded power is no larger than the
\* distance, and the distance eventually falls below Eps.
Eps == <<1, 4>>
Distance(p, f) == RAbs(RSub(p, f))

C5_Moves(p, f0, f1, dt, correction) ==
  /\ RLeq(Distance(p, f1), Distance(p, f0))
  /\ RLeq(f0, p) => RLeq(f1, p)
  /\ RLeq(p, f0) => RLeq(p, f1)
  /\ RMul(Distance(p, f1), RAdd(Tau, dt)) = RMul(Distance(p, f0), Tau)
  /\ RLeq(RAbs(correction), Distance(p, f1))

C5_Step ==
  calls' = calls + 1 =>
    C5_Moves(thr'.PowerRequired, FiltState, FiltState', loc'.dt,
             RSub(loc'.raw, RMul(PMaxFt, in'.ThrottlePos)))

C5_Near == Called /\ RLeq(Distance(thr.PowerRequired, FiltState), Eps)

C6_FilterStep ==
  Called =>
    /\ loc.dt = IF RLt(in.TotalDeltaT, dtFloor) THEN dtFloor ELSE in.TotalDeltaT
    /\ RLt(Zero, Tau) =>
         /\ loc.alpha = RDiv(loc.dt, RAdd(loc.dt, Tau))
         /\ RLt(Zero, loc.alpha) /\ RLt(loc.alpha, One)
         /\ RBetween(loc.prevFilt, FiltState, loc.measure)

C6_Witness ==
  /\ calls = 2 /\ RLt(Zero, Tau)
  /\ RLt(in.TotalDeltaT, Zero)
  /\ loc.dt = dtFloor
  /\ RLt(loc.prevFilt, FiltState) /\ RLt(FiltState, loc.measure)

\* C7: with Tau <= 0 a call leaves FiltState as it was and computes with the
\* raw measurement; a call writes FiltState at most once, and only if Tau > 0.
C7_Frame ==
  Called =>
    /\ RLeq(Tau, Zero) =>
         /\ FiltState = loc.prevFilt
         /\ loc.filtWrites = 0
         /\ loc.feedback = loc.measure
    /\ loc.filtWrites <= 1
    /\ loc.filtWrites = 1 => RLt(Zero, Tau)

C8_Config ==
  /\ el.power # NoElement => PowerMax = el.power
  /\ MaxRPM = (IF el.maxrpm # NoElement THEN el.maxrpm ELSE Zero)
  /\ Tau = (IF el.tau # NoElement THEN el.tau ELSE Zero)
  /\ Called => loc.branch = (IF RLt(Zero, MaxRPM) THEN "rpm" ELSE "power")

====
